---- MODULE Spec2Model ----
(***************************************************************************)
(* Excel -> PDF converter (excel2pdf.py and the excel_to_pdf package).     *)
(*                                                                         *)
(* Four state machines share this module, one per entry point:             *)
(*   SpecEst     _approx_display_len applied to one cell                   *)
(*   SpecFit     autofit_columns_openpyxl over a worksheet                 *)
(*   SpecAgg     main / convert_one of excel2pdf.py (aggregate mode)       *)
(*   SpecSheets  convert_folder / export_workbook_sheets_to_pdf            *)
(* The variables of the machines that a specification does not run stay    *)
(* at their idle values.                                                   *)
(***************************************************************************)
EXTENDS Integers, Sequences, FiniteSets, TLC

VARIABLES
    \* ---- width estimator (SpecEst)
    ecell,      \* the cell handed to _approx_display_len
    eres,       \* its return value, -1 before the call
    epc,
    \* ---- column auto-fit (SpecFit)
    ws,         \* the worksheet: row -> column -> cell
    params,     \* [min_width, padding, max_width]
    lengths,    \* the dict `lengths`: column index -> longest estimate
    width,      \* ws.column_dimensions[...].width, 0 = no entry written
    fpc,
    \* ---- per-sheet mode (SpecSheets)
    folderFiles,    \* what folder.rglob("*") yields, in order
    include_hidden, \* the --include-hidden option
    fi,             \* index of the entry the loop of convert_folder is at
    total,          \* `total`
    spc,            \* position in convert_folder / export_workbook_sheets_to_pdf
    app,            \* the automation process: "none", "running", "quit"
    book,           \* the workbook handle: "none", "open", "closed"
    sheets,         \* book.sheets of the open workbook
    si,             \* index of the sheet the loop is at
    created,        \* `created`
    pending,        \* the exception travelling up, "none" if none
    called,         \* history: entries export_workbook_sheets_to_pdf was called for
    exports,        \* history: the to_pdf calls of this workbook, [sheet, ok]
    \* ---- aggregate mode (SpecAgg)
    target,         \* args.target, resolved: [dir, name], name <<>> for a folder
    outArg,         \* args.out_dir: a directory, or "none"
    dirs,           \* the directories that exist
    fs,             \* the files that exist: path -> content
    files,          \* `files`
    idx,            \* index of the file the loop of main is at
    failures,       \* `failures`
    apc,            \* position in main / convert_one
    exitCode,       \* the exit status, -1 while running
    prepared,       \* `prepared`, the working copy of the current file
    used_excel,     \* `used_excel`
    excelExported,  \* history: wb.to_pdf completed for the current file
    libreCalled,    \* history: try_export_with_libreoffice ran for the current file
    attempts,       \* history: the files convert_one was called for
    raised          \* history: the files whose convert_one raised

estVars == <<ecell, eres, epc>>
fitVars == <<ws, params, lengths, width, fpc>>
sheetVars ==
    <<folderFiles, include_hidden, fi, total, spc, app, book, sheets, si,
      created, pending, called, exports>>
aggVars ==
    <<target, outArg, dirs, fs, files, idx, failures, apc, exitCode, prepared,
      used_excel, excelExported, libreCalled, attempts, raised>>

-----------------------------------------------------------------------------
(* Strings are sequences of one-character strings.                         *)

Max(a, b) == IF a >= b THEN a ELSE b
Min(a, b) == IF a <= b THEN a ELSE b

\* str.lower() on the characters that occur in the format descriptors
LowerChar(c) ==
    CASE c = "G" -> "g"
      [] c = "E" -> "e"
      [] c = "X" -> "x"
      [] c = "L" -> "l"
      [] c = "S" -> "s"
      [] c = "M" -> "m"
      [] OTHER   -> c

Lower(s) == [i \in DOMAIN s |-> LowerChar(s[i])]

\* Python's `tok in nf` on strings: tok occurs as a contiguous substring
IsSubstr(tok, s) ==
    \E i \in 0..(Len(s) - Len(tok)) : SubSeq(s, i + 1, i + Len(tok)) = tok

-----------------------------------------------------------------------------
(* Cell values.  kind is "none" (None), "str", "int" or "float".  A number *)
(* is sign, integer part ip and fraction frac in ten-thousandths; an int   *)
(* has frac = 0.  chars is the text of a str value.                        *)

NoneValue == [kind |-> "none", neg |-> FALSE, ip |-> 0, frac |-> 0, chars |-> <<>>]
StrValue(s) == [kind |-> "str", neg |-> FALSE, ip |-> 0, frac |-> 0, chars |-> s]
IntValue(neg, n) == [kind |-> "int", neg |-> neg, ip |-> n, frac |-> 0, chars |-> <<>>]
FloatValue(neg, n, f) == [kind |-> "float", neg |-> neg, ip |-> n, frac |-> f, chars |-> <<>>]

RECURSIVE NumDigits(_)
NumDigits(n) == IF n < 10 THEN 1 ELSE 1 + NumDigits(n \div 10)

RECURSIVE Pow10(_)
Pow10(k) == IF k = 0 THEN 1 ELSE 10 * Pow10(k - 1)

\* digits of n with a comma between groups of three: the "," format option
GroupedLen(n) == NumDigits(n) + ((NumDigits(n) - 1) \div 3)

SignLen(v) == IF v.neg THEN 1 ELSE 0

\* integer part of v rounded to d >= 1 decimals, ties to even
\* (float.__format__ rounds the exact binary value; the values of
\* NumericValues have no tie that is inexact in binary).  The parity of the
\* last kept digit is that of the kept fraction digits.
RoundedIntPart(v, d) ==
    LET unit == Pow10(4 - d)
        q    == v.frac \div unit
        r    == v.frac % unit
        up   == 2 * r > unit \/ (2 * r = unit /\ q % 2 = 1)
    IN  IF up /\ q + 1 = Pow10(d) THEN v.ip + 1 ELSE v.ip

\* len(f"{v:,.<d>f}")
FixedLen(v, d) == SignLen(v) + GroupedLen(RoundedIntPart(v, d)) + 1 + d

\* number of fraction digits repr() prints: trailing zeros dropped, one kept
RECURSIVE FracDigits(_, _)
FracDigits(f, k) ==
    IF f = 0 THEN 1
    ELSE IF f % 10 = 0 /\ k > 1 THEN FracDigits(f \div 10, k - 1)
    ELSE k

\* len(f"{v:,}"): an int prints its grouped digits, a float its grouped
\* integer part, the point and the repr() fraction
GeneralLen(v) ==
    IF v.kind = "int" THEN SignLen(v) + GroupedLen(v.ip)
    ELSE SignLen(v) + GroupedLen(v.ip) + 1 + FracDigits(v.frac, 4)

\* len(str(v)) of a text value
StrLen(v) == Len(v.chars)

IsNumeric(v) == v.kind \in {"int", "float"}

\* the token lists of the two branches
TwoDecimalTokens ==
    { <<"0", ".", "0", "0">>,
      <<"#", ",", "#", "#", "0", ".", "0", "0">>,
      <<"0", ".", "0">> }

ThreeDecimalTokens ==
    { <<"0", ".", "0", "0", "0">>,
      <<"0", ".", "0", "0", "0", "0">> }

\* _approx_display_len(cell); number_format None is the empty string
approx_display_len(cell) ==
    LET v  == cell.value
        nf == Lower(cell.number_format)
    IN  IF v.kind = "none" THEN 0
        ELSE IF IsNumeric(v) THEN
            IF \E tok \in TwoDecimalTokens : IsSubstr(tok, nf) THEN FixedLen(v, 2)
            ELSE IF \E tok \in ThreeDecimalTokens : IsSubstr(tok, nf) THEN FixedLen(v, 3)
            ELSE GeneralLen(v)
        ELSE StrLen(v)

-----------------------------------------------------------------------------
(* Inputs of the estimator.                                                *)

FmtGeneral == <<"G", "e", "n", "e", "r", "a", "l">>
FmtInt == <<"0">>
FmtGroupedInt == <<"#", ",", "#", "#", "0">>
FmtOne == <<"0", ".", "0">>
FmtTwo == <<"0", ".", "0", "0">>
FmtGroupedTwo == <<"#", ",", "#", "#", "0", ".", "0", "0">>
FmtThree == <<"0", ".", "0", "0", "0">>
FmtFour == <<"0", ".", "0", "0", "0", "0">>
FmtSci == <<"0", ".", "0", "0", "E", "+", "0", "0">>

Formats ==
    { <<>>, FmtGeneral, FmtInt, FmtGroupedInt, FmtOne, FmtTwo, FmtGroupedTwo,
      FmtThree, FmtFour, FmtSci }

\* fractions whose ties at two and three decimals are exact binary values
\* (multiples of 1/16), and two that round up without a tie
NumericValues ==
    { IntValue(FALSE, 0), IntValue(FALSE, 7), IntValue(TRUE, 42),
      IntValue(FALSE, 1234), IntValue(FALSE, 1234567),
      FloatValue(FALSE, 1234, 5000), FloatValue(FALSE, 0, 625),
      FloatValue(TRUE, 0, 1250), FloatValue(FALSE, 999, 9990),
      FloatValue(FALSE, 12, 0), FloatValue(TRUE, 99999, 9999) }

TextValues == { StrValue(<<>>), StrValue(<<"a", "b", "c">>) }

Cell(v, nf) == [value |-> v, number_format |-> nf]

EstCells ==
    { Cell(v, nf) : v \in NumericValues, nf \in Formats }
        \cup { Cell(v, FmtGeneral) : v \in TextValues \cup {NoneValue} }

IdleCell == Cell(NoneValue, <<>>)

EstIdle == ecell = IdleCell /\ eres = -1 /\ epc = "idle"

EstInit == ecell \in EstCells /\ eres = -1 /\ epc = "call"

\* one call of _approx_display_len(cell)
Estimate ==
    /\ epc = "call"
    /\ eres' = approx_display_len(ecell)
    /\ epc' = "returned"
    /\ UNCHANGED <<ecell, fitVars, sheetVars, aggVars>>

-----------------------------------------------------------------------------
(* autofit_columns_openpyxl.                                               *)

MaxRows == 2
MaxCols == 1

Rows == 1..MaxRows
Cols == 1..MaxCols

\* the cells a worksheet of the model is made of: an empty cell, an empty
\* text, and values of estimated length 3, 5 and 7
FitCells ==
    { Cell(NoneValue, FmtGeneral), Cell(StrValue(<<>>), FmtGeneral),
      Cell(StrValue(<<"a", "b", "c">>), FmtGeneral),
      Cell(IntValue(FALSE, 1234), FmtGeneral),
      Cell(FloatValue(FALSE, 1234, 5000), FmtGeneral) }

\* the defaults of the signature, a narrow setting and a wide one
DefaultParams == [min_width |-> 8, padding |-> 2, max_width |-> 120]
NarrowParams == [min_width |-> 3, padding |-> 2, max_width |-> 8]
WideParams == [min_width |-> 10, padding |-> 4, max_width |-> 120]
ParamChoices == {DefaultParams, NarrowParams, WideParams}

EmptyDict == [c \in {} |-> 0]

\* lengths[col_idx] = L
DictPut(d, k, x) == [c \in DOMAIN d \cup {k} |-> IF c = k THEN x ELSE d[c]]

\* one iteration of the inner loop: the cell at (r, c)
ScanCell(sheet, r, c, acc) ==
    LET cell == sheet[r][c]
        L    == approx_display_len(cell)
    IN  IF cell.value.kind = "none" THEN acc
        ELSE IF L > 0 /\ (c \notin DOMAIN acc \/ L > acc[c]) THEN DictPut(acc, c, L)
        ELSE acc

\* the first loop, from the k-th cell in row-major order on
RECURSIVE ScanFrom(_, _, _)
ScanFrom(sheet, k, acc) ==
    IF k > MaxRows * MaxCols THEN acc
    ELSE ScanFrom(sheet, k + 1,
                  ScanCell(sheet, ((k - 1) \div MaxCols) + 1, ((k - 1) % MaxCols) + 1, acc))

\* a mutant: the padding is left out
TargetWidthNoPadding(L, p) == Max(p.min_width, Min(p.max_width, L))

\* target = max(min_width, min(max_width, L + padding))
TargetWidth(L, p) == Max(p.min_width, Min(p.max_width, L + p.padding))

FitIdle ==
    /\ ws = <<>> /\ params = DefaultParams /\ lengths = EmptyDict
    /\ width = <<>> /\ fpc = "idle"

FitInit ==
    /\ ws \in [Rows -> [Cols -> FitCells]]
    /\ params \in ParamChoices
    /\ lengths = EmptyDict
    /\ width = [c \in Cols |-> 0]
    /\ fpc = "call"

\* autofit_columns_openpyxl(ws, min_width, padding, max_width)
autofit_columns_openpyxl ==
    /\ fpc = "call"
    /\ LET found == ScanFrom(ws, 1, EmptyDict)
       IN  /\ lengths' = found
           /\ width' = [c \in Cols |->
                          IF c \in DOMAIN found THEN TargetWidth(found[c], params)
                          ELSE width[c]]
    /\ fpc' = "returned"
    /\ UNCHANGED <<ws, params, estVars, sheetVars, aggVars>>

-----------------------------------------------------------------------------
(* Per-sheet mode: convert_folder and export_workbook_sheets_to_pdf.       *)

MaxFolder == 2
MaxSheets == 3

\* ILLEGAL = r'[<>:"/\\|?*]'
ILLEGAL == {"<", ">", ":", "\"", "/", "\\", "|", "?", "*"}

\* safe_name(name): every illegal character becomes "_"
safe_name(name) == [i \in DOMAIN name |-> IF name[i] \in ILLEGAL THEN "_" ELSE name[i]]

\* exts of convert_folder
SheetExts ==
    { <<".", "x", "l", "s">>, <<".", "x", "l", "s", "x">>,
      <<".", "x", "l", "s", "m">>, <<".", "x", "l", "s", "b">> }

\* directory entries: workbooks, a text file, a directory named like a workbook
Entry(stem, suffix, isFile) == [stem |-> stem, suffix |-> suffix, is_file |-> isFile]

FolderEntries ==
    { Entry(<<"q", ":", "1">>, <<".", "X", "L", "S", "M">>, TRUE),
      Entry(<<"n">>, <<".", "t", "x", "t">>, TRUE),
      Entry(<<"d">>, <<".", "x", "l", "s", "x">>, FALSE) }

\* worksheets: a name and what reading sht.api.Visible gives: a true value,
\* a false value, or an exception
Sheet(name, vis) == [name |-> name, vis |-> vis]

SheetPool ==
    { Sheet(<<"Q", "1">>, "visible"), Sheet(<<"a", "<", "b">>, "hidden"),
      Sheet(<<"p", "|", "2">>, "unreadable") }

SeqsUpTo(S, n) == UNION { [1..k -> S] : k \in 0..n }

Workbooks == SeqsUpTo(SheetPool, MaxSheets)

\* `f.suffix.lower() not in exts or not f.is_file()`: the entry is skipped
EntrySkipped(f) == Lower(f.suffix) \notin SheetExts \/ ~f.is_file

\* a mutant: hidden sheets are never skipped
SheetSkippedNever(incl, sht) == FALSE

\* lines 70-75: visible defaults to True when unreadable; the sheet is
\* skipped when `not include_hidden and not visible`
SheetSkipped(incl, sht) ==
    LET visible == IF sht.vis = "unreadable" THEN TRUE ELSE sht.vis = "visible"
    IN  ~incl /\ ~visible

\* pdf_path, without out_dir: "<safe stem> - <safe sheet name>.pdf"
PdfName(f, sht) == [stem |-> safe_name(f.stem), sheet |-> safe_name(sht.name)]

SheetsIdle ==
    /\ folderFiles = <<>> /\ include_hidden = FALSE /\ fi = 0 /\ total = 0
    /\ spc = "idle" /\ app = "none" /\ book = "none" /\ sheets = <<>> /\ si = 0
    /\ created = <<>> /\ pending = "none" /\ called = <<>> /\ exports = <<>>

SheetsInit ==
    /\ folderFiles \in SeqsUpTo(FolderEntries, MaxFolder) \ {<<>>}
    /\ include_hidden \in BOOLEAN
    /\ fi = 1 /\ total = 0
    /\ spc = "loop" /\ app = "none" /\ book = "none" /\ sheets = <<>> /\ si = 0
    /\ created = <<>> /\ pending = "none" /\ called = <<>> /\ exports = <<>>

\* convert_folder, lines 53-55: the head of the loop; a skipped entry
SkipEntry ==
    /\ spc = "loop" /\ fi <= Len(folderFiles)
    /\ EntrySkipped(folderFiles[fi])
    /\ fi' = fi + 1
    /\ UNCHANGED <<estVars, fitVars, aggVars>>
    /\ UNCHANGED <<folderFiles, include_hidden, total, spc, app, book, sheets, si,
                   created, pending, called, exports>>

\* convert_folder, line 57, and export_workbook_sheets_to_pdf up to
\* xw.App(...): the process starts, or xw.App raises before the try
CallExport ==
    /\ spc = "loop" /\ fi <= Len(folderFiles)
    /\ ~EntrySkipped(folderFiles[fi])
    /\ called' = Append(called, fi)
    /\ created' = <<>> /\ exports' = <<>> /\ sheets' = <<>> /\ si' = 0 /\ book' = "none"
    /\ \E started \in BOOLEAN :
         IF started
         THEN app' = "running" /\ spc' = "open" /\ pending' = "none"
         ELSE app' = "none" /\ spc' = "raised" /\ pending' = "App"
    /\ UNCHANGED <<estVars, fitVars, aggVars>>
    /\ UNCHANGED <<folderFiles, include_hidden, fi, total>>

\* line 66: app.books.open(...) gives the workbook or raises
OpenBook ==
    /\ spc = "open"
    /\ \/ \E wb \in Workbooks :
            /\ sheets' = wb /\ book' = "open" /\ si' = 1 /\ spc' = "sheets"
            /\ UNCHANGED pending
       \/ /\ pending' = "open" /\ spc' = "finally"
          /\ UNCHANGED <<sheets, book, si>>
    /\ UNCHANGED <<estVars, fitVars, aggVars>>
    /\ UNCHANGED <<folderFiles, include_hidden, fi, total, app, created, called, exports>>

\* lines 68-91: one iteration of `for sht in book.sheets`.  Page setup is
\* best effort and changes nothing here.  Reading sht.name (line 83) may
\* raise; book.to_pdf succeeds or raises, and its exception is caught.
SheetStep ==
    /\ spc = "sheets" /\ si <= Len(sheets)
    /\ IF SheetSkipped(include_hidden, sheets[si])
       THEN /\ si' = si + 1
            /\ UNCHANGED <<spc, created, exports, pending>>
       ELSE \E nameOk \in BOOLEAN, exported \in BOOLEAN :
              IF ~nameOk
              THEN /\ pending' = "name" /\ spc' = "finally"
                   /\ UNCHANGED <<si, created, exports>>
              ELSE /\ exports' = Append(exports, [sheet |-> si, ok |-> exported])
                   /\ created' = IF exported
                                  THEN Append(created, PdfName(folderFiles[fi], sheets[si]))
                                  ELSE created
                   /\ si' = si + 1
                   /\ UNCHANGED <<spc, pending>>
    /\ UNCHANGED <<estVars, fitVars, aggVars>>
    /\ UNCHANGED <<folderFiles, include_hidden, fi, total, app, book, sheets, called>>

\* line 93: book.close() after the loop; it may raise
CloseBook ==
    /\ spc = "sheets" /\ si > Len(sheets)
    /\ book' = "closed"
    /\ spc' = "finally"
    /\ \E closeRaises \in BOOLEAN : pending' = IF closeRaises THEN "close" ELSE "none"
    /\ UNCHANGED <<estVars, fitVars, aggVars>>
    /\ UNCHANGED <<folderFiles, include_hidden, fi, total, app, sheets, si, created,
                   called, exports>>

\* lines 94-97: finally app.quit(), then return created or let the
\* exception go on
Quit ==
    /\ spc = "finally"
    /\ app' = "quit"
    /\ \E quitRaises \in BOOLEAN :
         pending' = IF quitRaises THEN "quit" ELSE pending
    /\ spc' = IF pending' = "none" THEN "returned" ELSE "raised"
    /\ UNCHANGED <<estVars, fitVars, aggVars>>
    /\ UNCHANGED <<folderFiles, include_hidden, fi, total, book, sheets, si, created,
                   called, exports>>

\* convert_folder, lines 64-66: the created paths are printed and counted
Returned ==
    /\ spc = "returned"
    /\ total' = total + Len(created)
    /\ fi' = fi + 1
    /\ spc' = "loop"
    /\ sheets' = <<>> /\ si' = 0 /\ created' = <<>> /\ exports' = <<>>
    /\ UNCHANGED <<estVars, fitVars, aggVars>>
    /\ UNCHANGED <<folderFiles, include_hidden, app, book, pending, called>>

\* convert_folder has no handler: the exception ends the command
Propagate ==
    /\ spc = "raised"
    /\ spc' = "crashed"
    /\ UNCHANGED <<estVars, fitVars, aggVars>>
    /\ UNCHANGED <<folderFiles, include_hidden, fi, total, app, book, sheets, si,
                   created, pending, called, exports>>

\* line 67: the loop is over, the summary is printed
Finish ==
    /\ spc = "loop" /\ fi > Len(folderFiles)
    /\ spc' = "done"
    /\ UNCHANGED <<estVars, fitVars, aggVars>>
    /\ UNCHANGED <<folderFiles, include_hidden, fi, total, app, book, sheets, si,
                   created, pending, called, exports>>

-----------------------------------------------------------------------------
(* Aggregate mode: main and convert_one of excel2pdf.py.                   *)
(* A path is [dir, name]; a name is a string of characters; a folder has   *)
(* the empty name.  A file's content records the input it derives from     *)
(* (src), whether the print settings were written (ready) and its kind.    *)

MaxFiles == 2

\* tempfile.gettempdir()
TmpDir == "tmp"

InitDirs == {"in", TmpDir}

FilePath(d, n) == [dir |-> d, name |-> n]
FolderPath(d) == [dir |-> d, name |-> <<>>]

\* Path.is_dir()
IsDir(p, ds) == p.name = <<>> /\ p.dir \in ds

\* index of the last "." of a name, 0 if none
RECURSIVE LastDot(_, _)
LastDot(n, i) == IF i = 0 THEN 0 ELSE IF n[i] = "." THEN i ELSE LastDot(n, i - 1)

\* Path.suffix: from the last dot, unless it leads or ends the name
Suffix(n) ==
    LET i == LastDot(n, Len(n))
    IN  IF 1 < i /\ i < Len(n) THEN SubSeq(n, i, Len(n)) ELSE <<>>

\* Path.stem
Stem(n) ==
    LET i == LastDot(n, Len(n))
    IN  IF 1 < i /\ i < Len(n) THEN SubSeq(n, 1, i - 1) ELSE n

\* is_excel_file(p)
is_excel_file(p) ==
    Lower(Suffix(p.name)) \in
        { <<".", "x", "l", "s", "x">>, <<".", "x", "l", "s", "m">>, <<".", "x", "l", "s">> }

PrintReadySuffix ==
    <<"_", "p", "r", "i", "n", "t", "_", "r", "e", "a", "d", "y", ".", "x", "l", "s", "x">>

PdfSuffix == <<".", "p", "d", "f">>

\* a mutant: the working copy keeps the input's name
TmpPathSameName(p) == FilePath(TmpDir, Stem(p.name) \o <<".", "x", "l", "s", "x">>)

\* line 88: tmp = Path(tempfile.gettempdir()) / (xlsx_path.stem + "_print_ready.xlsx")
TmpPath(p) == FilePath(TmpDir, Stem(p.name) \o PrintReadySuffix)

\* line 200: pdf_path = out_dir / (f.stem + ".pdf")
PdfPath(out, p) == FilePath(out, Stem(p.name) \o PdfSuffix)

\* lines 150-151: pdf_path.parent / xlsx_path.with_suffix(".pdf").name
ProducedPath(pdf, xlsx) == FilePath(pdf.dir, Stem(xlsx.name) \o PdfSuffix)

\* line 187: out_dir is --out, else the target folder or the target's parent
OutDir(t, o) == IF o # "none" THEN o ELSE t.dir

\* the characters of the names, in code point order
CharOrder ==
    <<".", "L", "S", "X", "_", "a", "b", "d", "e", "i", "l", "m", "n", "p", "r",
      "s", "t", "x", "y">>

Ord(c) == CHOOSE i \in DOMAIN CharOrder : CharOrder[i] = c

\* str.__lt__: the order sorted() puts the paths of one folder in
RECURSIVE StrLess(_, _)
StrLess(a, b) ==
    IF a = <<>> THEN b # <<>>
    ELSE IF b = <<>> THEN FALSE
    ELSE IF Head(a) # Head(b) THEN Ord(Head(a)) < Ord(Head(b))
    ELSE StrLess(Tail(a), Tail(b))

RECURSIVE Sorted(_)
Sorted(S) ==
    IF S = {} THEN <<>>
    ELSE LET m == CHOOSE x \in S : \A y \in S : x = y \/ StrLess(x.name, y.name)
         IN  <<m>> \o Sorted(S \ {m})

\* line 191: the Excel files of the folder, sorted
Listing(t, f) ==
    Sorted({ p \in DOMAIN f : p.dir = t.dir /\ is_excel_file(p) })

Content(kind, src, ready) == [kind |-> kind, src |-> src, ready |-> ready]

Write(f, p, c) == [q \in DOMAIN f \cup {p} |-> IF q = p THEN c ELSE f[q]]

Remove(f, p) == [q \in DOMAIN f \ {p} |-> f[q]]

\* the names a folder of the model may hold
NamePool ==
    { <<"a", ".", "x", "l", "s", "x">>,
      <<"a", ".", "x", "l", "s", "m">>,
      <<"a", "_", "p", "r", "i", "n", "t", "_", "r", "e", "a", "d", "y", ".", "x", "l", "s", "x">>,
      <<"b", ".", "X", "L", "S">>,
      <<"n", ".", "t", "x", "t">> }

NoPath == FilePath("none", <<>>)

AggIdle ==
    /\ target = NoPath /\ outArg = "none" /\ dirs = {} /\ fs = <<>> /\ files = <<>>
    /\ idx = 0 /\ failures = <<>> /\ apc = "idle" /\ exitCode = -1 /\ prepared = NoPath
    /\ used_excel = FALSE /\ excelExported = FALSE /\ libreCalled = FALSE
    /\ attempts = <<>> /\ raised = <<>>

\* one input folder (a plain one or the temporary directory) holding up to
\* MaxFiles files; the target is the folder or a file of it, present or not
AggInit ==
    /\ \E d \in InitDirs, names \in SUBSET NamePool :
          /\ Cardinality(names) <= MaxFiles
          /\ fs = [p \in { FilePath(d, n) : n \in names } |->
                      Content("input", p, FALSE)]
          /\ target \in {FolderPath(d)} \cup { FilePath(d, n) : n \in NamePool }
    /\ outArg \in {"none", "out"}
    /\ dirs = InitDirs
    /\ files = <<>> /\ idx = 0 /\ failures = <<>> /\ apc = "start" /\ exitCode = -1
    /\ prepared = NoPath /\ used_excel = FALSE /\ excelExported = FALSE
    /\ libreCalled = FALSE /\ attempts = <<>> /\ raised = <<>>

out_dir == OutDir(target, outArg)

\* lines 186-188: out_dir.mkdir(parents=True, exist_ok=True)
MakeOutDir ==
    /\ apc = "start"
    /\ dirs' = dirs \cup {out_dir}
    /\ apc' = "select"
    /\ UNCHANGED <<estVars, fitVars, sheetVars>>
    /\ UNCHANGED <<target, outArg, fs, files, idx, failures, exitCode, prepared,
                   used_excel, excelExported, libreCalled, attempts, raised>>

\* lines 190-198: the files to convert, or exit status 2
SelectFiles ==
    /\ apc = "select"
    /\ IF IsDir(target, dirs)
       THEN files' = Listing(target, fs) /\ apc' = "loop" /\ idx' = 1 /\ UNCHANGED exitCode
       ELSE IF ~is_excel_file(target)
       THEN exitCode' = 2 /\ apc' = "exit" /\ UNCHANGED <<files, idx>>
       ELSE files' = <<target>> /\ apc' = "loop" /\ idx' = 1 /\ UNCHANGED exitCode
    /\ UNCHANGED <<estVars, fitVars, sheetVars>>
    /\ UNCHANGED <<target, outArg, dirs, fs, failures, prepared, used_excel,
                   excelExported, libreCalled, attempts, raised>>

\* a mutant: the handler prints the failure and forgets it
RecordFailureDropped(fl, f) == fl

\* line 206: failures.append((f, e))
RecordFailure(fl, f) == Append(fl, f)

\* lines 204-206 after convert_one raised for files[idx]
Failed ==
    /\ failures' = RecordFailure(failures, files[idx])
    /\ raised' = Append(raised, files[idx])
    /\ idx' = idx + 1
    /\ apc' = "loop"

\* line 203 after convert_one returned
Succeeded ==
    /\ idx' = idx + 1
    /\ apc' = "loop"
    /\ UNCHANGED <<failures, raised>>

\* line 65: load_workbook(xlsx_path) can succeed only for a file that exists
\* and has one of the extensions openpyxl reads
Loadable(p, f) ==
    /\ p \in DOMAIN f
    /\ Lower(Suffix(p.name)) \in
          { <<".", "x", "l", "s", "x">>, <<".", "x", "l", "s", "m">> }

\* lines 199-202 and ensure_print_settings: convert_one is called for
\* files[idx]; load_workbook raises for a file that is not loadable and may
\* raise for one that is; otherwise the working copy is saved
ensure_print_settings ==
    /\ apc = "loop" /\ idx <= Len(files)
    /\ attempts' = Append(attempts, files[idx])
    /\ used_excel' = FALSE /\ excelExported' = FALSE /\ libreCalled' = FALSE
    /\ \E loaded \in BOOLEAN :
         IF loaded /\ Loadable(files[idx], fs)
         THEN /\ prepared' = TmpPath(files[idx])
              /\ fs' = Write(fs, TmpPath(files[idx]),
                             Content("workbook", fs[files[idx]].src, TRUE))
              /\ apc' = "excel"
              /\ UNCHANGED <<idx, failures, raised>>
         ELSE /\ Failed
              /\ UNCHANGED <<prepared, fs>>
    /\ UNCHANGED <<estVars, fitVars, sheetVars>>
    /\ UNCHANGED <<target, outArg, dirs, files, exitCode>>

\* what a run of try_export_with_excel_via_xlwings meets: xlwings imports
\* or not, xw.App starts or raises, one of the steps inside the try raises
\* or none does, app.kill() raises or not
ExcelRuns ==
    [imported : BOOLEAN, started : BOOLEAN,
     raises : {"open", "setup", "to_pdf", "close", "none"}, killed : BOOLEAN]

\* wb.to_pdf (line 123) completed
ExcelWrote(r) == r.imported /\ r.started /\ r.raises \in {"close", "none"}

\* the return value: True only when nothing raised, app.kill() included
ExcelResult(r) == r.imported /\ r.started /\ r.raises = "none" /\ r.killed

\* line 166-167: try_export_with_excel_via_xlwings(prepared, out_pdf)
try_export_with_excel_via_xlwings ==
    /\ apc = "excel"
    /\ \E r \in ExcelRuns :
         /\ excelExported' = ExcelWrote(r)
         /\ used_excel' = ExcelResult(r)
         /\ fs' = IF ExcelWrote(r)
                  THEN Write(fs, PdfPath(out_dir, files[idx]),
                             Content("pdf", fs[prepared].src, TRUE))
                  ELSE fs
         /\ IF ExcelResult(r)
            THEN Succeeded
            ELSE apc' = "libre" /\ UNCHANGED <<idx, failures, raised>>
    /\ UNCHANGED <<estVars, fitVars, sheetVars>>
    /\ UNCHANGED <<target, outArg, dirs, files, exitCode, prepared, libreCalled,
                   attempts>>

\* the file system after soffice ran and lines 150-153: soffice fails,
\* converts into outdir under the working copy's stem, or ends without output
AfterLibre(f, pdf, xlsx, run) ==
    LET src  == ProducedPath(pdf, xlsx)
        made == IF run = "converted"
                THEN Write(f, src, Content("pdf", f[xlsx].src, TRUE))
                ELSE f
    IN  IF run # "failed" /\ src # pdf /\ src \in DOMAIN made
        THEN Write(Remove(made, src), pdf, made[src])
        ELSE made

\* lines 168-170: try_export_with_libreoffice(prepared, out_pdf), and the
\* RuntimeError when it returns False
try_export_with_libreoffice ==
    /\ apc = "libre"
    /\ libreCalled' = TRUE
    /\ \E run \in {"failed", "converted", "no_output"} :
         LET pdf == PdfPath(out_dir, files[idx])
             after == AfterLibre(fs, pdf, prepared, run)
         IN  /\ fs' = after
             /\ IF run # "failed" /\ pdf \in DOMAIN after
                THEN Succeeded
                ELSE Failed
    /\ UNCHANGED <<estVars, fitVars, sheetVars>>
    /\ UNCHANGED <<target, outArg, dirs, files, exitCode, prepared, used_excel,
                   excelExported, attempts>>

\* lines 208-209: sys.exit(3) when there are failures
ExitStatus(fl) == IF fl # <<>> THEN 3 ELSE 0

Exit ==
    /\ apc = "loop" /\ idx > Len(files)
    /\ exitCode' = ExitStatus(failures)
    /\ apc' = "exit"
    /\ UNCHANGED <<estVars, fitVars, sheetVars>>
    /\ UNCHANGED <<target, outArg, dirs, fs, files, idx, failures, prepared,
                   used_excel, excelExported, libreCalled, attempts, raised>>

vars == <<estVars, fitVars, sheetVars, aggVars>>

InitEst == EstInit /\ FitIdle /\ SheetsIdle /\ AggIdle

SpecEst == InitEst /\ [][Estimate]_vars

InitFit == FitInit /\ EstIdle /\ SheetsIdle /\ AggIdle

SpecFit == InitFit /\ [][autofit_columns_openpyxl]_vars

NextSheets ==
    \/ SkipEntry \/ CallExport \/ OpenBook \/ SheetStep \/ CloseBook
    \/ Quit \/ Returned \/ Propagate \/ Finish

InitSheets == SheetsInit /\ EstIdle /\ FitIdle /\ AggIdle

SpecSheets == InitSheets /\ [][NextSheets]_vars

NextAgg == MakeOutDir \/ SelectFiles \/ ensure_print_settings \/ try_export_with_excel_via_xlwings \/ try_export_with_libreoffice \/ Exit

InitAgg == AggInit /\ EstIdle /\ FitIdle /\ SheetsIdle

SpecAgg == InitAgg /\ [][NextAgg]_vars

-----------------------------------------------------------------------------
(* The claims.                                                             *)

\* C1: in aggregate mode every file of the list is attempted exactly once,
\* in order, whether or not earlier files failed, and the run ends with
\* status 3 if and only if some convert_one raised, with status 0 otherwise.
C1_AllAttemptedExit3IffRaised ==
    /\ (apc = "loop") => attempts = SubSeq(files, 1, idx - 1)
    /\ (apc = "exit" /\ exitCode # 2) =>
          /\ attempts = files
          /\ (exitCode = 3) <=> (raised # <<>>)
          /\ (exitCode = 0) <=> (raised = <<>>)

\* the first of two files failed, the second was still converted
C1_Witness ==
    /\ apc = "exit" /\ exitCode = 3
    /\ Len(files) = 2 /\ attempts = files
    /\ raised = <<files[1]>>

\* C2: in convert_folder a workbook whose export raises is caught and does
\* not halt the batch: when the command ends, every qualifying entry of the
\* folder has been attempted.
C2_FailureDoesNotHaltFolder ==
    (spc \in {"done", "crashed"}) =>
        \A i \in DOMAIN folderFiles :
            ~EntrySkipped(folderFiles[i]) => \E k \in DOMAIN called : called[k] = i

\* C3: renderer B runs only when renderer A was unavailable or did not
\* complete the PDF export; it never runs after renderer A exported the
\* workbook, a failing teardown included.
C3_LibreOnlyWhenExcelDidNotExport ==
    /\ libreCalled => ~excelExported
    /\ (apc = "libre") => ~excelExported

\* C4: whenever export_workbook_sheets_to_pdf is left after the engine was
\* started, by return or by exception, the workbook, if it was opened, has
\* been closed and the automation process has been quit.
C4_BookClosedAndAppQuitOnEveryExit ==
    (spc \in {"returned", "raised"} /\ app # "none") =>
        (app = "quit" /\ book # "open")

\* a sheet qualifies when it is not read as hidden, or hidden sheets are asked for
Qualifying(sht) == include_hidden \/ sht.vis \in {"visible", "unreadable"}

RECURSIVE QualifyingUpTo(_)
QualifyingUpTo(n) ==
    IF n = 0 THEN <<>>
    ELSE IF Qualifying(sheets[n]) THEN Append(QualifyingUpTo(n - 1), n)
    ELSE QualifyingUpTo(n - 1)

RECURSIVE PathsOfExported(_)
PathsOfExported(k) ==
    IF k = 0 THEN <<>>
    ELSE IF exports[k].ok
         THEN Append(PathsOfExported(k - 1),
                     PdfName(folderFiles[fi], sheets[exports[k].sheet]))
         ELSE PathsOfExported(k - 1)

\* C5: export_workbook_sheets_to_pdf attempts every qualifying sheet in
\* stored order, a failed export does not stop the later ones, the returned
\* list is exactly the paths of the qualifying sheets whose export
\* succeeded, in order, and a hidden sheet is never exported unless
\* include_hidden is set.
C5_EveryQualifyingSheetAttempted ==
    /\ \A k \in DOMAIN exports : Qualifying(sheets[exports[k].sheet])
    /\ created = PathsOfExported(Len(exports))
    /\ (spc = "sheets") =>
          [k \in DOMAIN exports |-> exports[k].sheet] = QualifyingUpTo(si - 1)
    /\ (spc = "returned") =>
          [k \in DOMAIN exports |-> exports[k].sheet] = QualifyingUpTo(Len(sheets))

\* a hidden sheet skipped, a failed export, then a successful one
C5_Witness ==
    /\ spc = "returned" /\ ~include_hidden
    /\ Len(sheets) = 3 /\ sheets[1].vis = "hidden"
    /\ exports = <<[sheet |-> 2, ok |-> FALSE], [sheet |-> 3, ok |-> TRUE]>>
    /\ Len(created) = 1

Populated(c) == { r \in Rows : ws[r][c].value.kind # "none" }

Measured(c) == { r \in Populated(c) : approx_display_len(ws[r][c]) > 0 }

MaxEstimate(c) ==
    CHOOSE m \in { approx_display_len(ws[r][c]) : r \in Populated(c) } :
        \A r \in Populated(c) : approx_display_len(ws[r][c]) <= m

\* clamp as the specification writes it out: max(lo, min(hi, x))
Clamp(x, lo, hi) == Max(lo, Min(hi, x))

ClampedWidth(c) ==
    Clamp(MaxEstimate(c) + params.padding, params.min_width, params.max_width)

\* C6 as stated: after autofit every column with a non-absent cell has
\* width clamp(M + padding, min_width, max_width), M the longest estimate
\* of its non-absent cells, and every other column has no entry written.
C6_EveryPopulatedColumnClamped ==
    (fpc = "returned") =>
        \A c \in Cols :
            IF Populated(c) # {} THEN width[c] = ClampedWidth(c) ELSE width[c] = 0

\* C6 as amended: the columns that get the clamped width are those with a
\* non-absent cell of positive estimated length; every other column, one
\* holding only empty texts included, has no entry written.
C6_MeasuredColumnsClamped ==
    (fpc = "returned") =>
        \A c \in Cols :
            IF Measured(c) # {} THEN width[c] = ClampedWidth(c) ELSE width[c] = 0

\* a column of an empty text and a value of length 7, sized 7 + 2 = 9
C6_Witness ==
    /\ fpc = "returned" /\ params = DefaultParams
    /\ \E c \in Cols :
          /\ width[c] = 9
          /\ Populated(c) # Measured(c) /\ Measured(c) # {}

HasToken(nf, tok) == IsSubstr(tok, Lower(nf))

\* the decimals the descriptor asks for: four or three for a token of that
\* many decimals, two for a token of the two-decimal list, none otherwise
ClaimedDecimals(nf) ==
    IF HasToken(nf, FmtFour) THEN 4
    ELSE IF HasToken(nf, FmtThree) THEN 3
    ELSE IF \E tok \in TwoDecimalTokens : HasToken(nf, tok) THEN 2
    ELSE 0

\* C7: for a numeric value the estimate is the length of the value printed
\* with grouped thousands and the decimals of the descriptor: two for a
\* two-decimal token, three or four for a three- or four-decimal token,
\* and the grouped form without fixed decimals for any other descriptor.
C7_DecimalsFollowDescriptor ==
    (epc = "returned" /\ IsNumeric(ecell.value)) =>
        eres = (IF ClaimedDecimals(ecell.number_format) = 0
                THEN GeneralLen(ecell.value)
                ELSE FixedLen(ecell.value, ClaimedDecimals(ecell.number_format)))

\* C8: given a single path with an unsupported extension, or a path to a
\* missing file, the run ends with a non-zero status (2 for the wrong type)
\* without having attempted a conversion or created a file or directory.
C8_InvalidInputNoPartialWork ==
    (apc = "exit" /\ target.name # <<>>
        /\ (~is_excel_file(target) \/ target \notin DOMAIN fs)) =>
        /\ exitCode # 0
        /\ ~is_excel_file(target) => exitCode = 2
        /\ attempts = <<>>
        /\ dirs = InitDirs
        /\ \A p \in DOMAIN fs : fs[p].kind = "input"

\* C9: after a run in which every conversion succeeded, each input has its
\* own PDF at <out>/<stem>.pdf, rendered from that input: n inputs, n PDFs.
C9_OnePdfPerInput ==
    (apc = "exit" /\ exitCode = 0) =>
        /\ \A i \in DOMAIN files :
              LET pdf == PdfPath(out_dir, files[i])
              IN  /\ pdf \in DOMAIN fs
                  /\ fs[pdf].kind = "pdf"
                  /\ fs[pdf].src = files[i]
        /\ Cardinality({ PdfPath(out_dir, files[i]) : i \in DOMAIN files }) = Len(files)

\* C10: the working copy is saved to a path other than the input, and no
\* step of convert_one (prepare, renderer A, renderer B) changes the input.
C10_InputNeverWritten ==
    [][(apc \in {"loop", "excel", "libre"} /\ idx \in DOMAIN files) =>
          /\ TmpPath(files[idx]) # files[idx]
          /\ (files[idx] \in DOMAIN fs) =>
                (files[idx] \in DOMAIN fs' /\ fs'[files[idx]] = fs[files[idx]])]_vars

\* the working copy of an input that lies in the temporary directory and
\* whose name ends in the suffix has been saved
C10_Witness ==
    /\ apc = "excel"
    /\ files[idx].dir = TmpDir
    /\ files[idx].name = <<"a">> \o PrintReadySuffix
    /\ prepared \in DOMAIN fs /\ fs[prepared].ready
    /\ fs[files[idx]] = Content("input", files[idx], FALSE)

====
